---- MODULE Spec2Model ----
(***************************************************************************)
(* Row-selection engine of the web UI: the useSelection hook               *)
(* (src/webui/react/src/hooks/useSelection.ts) driven by the grid's        *)
(* selection events and by the data loader of FlatRuns.tsx.                *)
(*                                                                         *)
(* A JavaScript array is a sequence; position p of the code is index p+1.  *)
(* A JavaScript Set is a duplicate-free sequence in insertion order, so    *)
(* Array.from(set) is that sequence.                                       *)
(***************************************************************************)
EXTENDS Integers, Sequences, FiniteSets, TLC

\* ---------------------------------------------------------------- bounds
MaxId == 2
WindowLen == 2
MaxTotal == 2

Ids == 1..MaxId
Positions == 0..(WindowLen - 1)

\* ------------------------------------------------------------- Loadable
\* hew/utils/loadable: a slot or the total is NotLoaded or Loaded(value).
NotLoaded == -1

getOrElse(l, d) == IF l = NotLoaded THEN d ELSE l

isLoaded(l) == l # NotLoaded

\* Variant: the slots are not filtered, pending ones are kept.
filterNotLoaded_keepsAll(arr) == arr

\* Loadable.filterNotLoaded(arr): the loaded values of arr, in order.
filterNotLoaded(arr) == SelectSeq(arr, isLoaded)

\* ---------------------------------------------------------------- arrays
Min(a, b) == IF a < b THEN a ELSE b
Max(a, b) == IF a > b THEN a ELSE b

\* Array.prototype.slice(start, end): negative indices count from the end,
\* both are clamped to 0..length, an empty array when start >= end.
slice(arr, start, end) ==
  LET len == Len(arr)
      k == IF start < 0 THEN Max(len + start, 0) ELSE Min(start, len)
      final == IF end < 0 THEN Max(len + end, 0) ELSE Min(end, len)
  IN  SubSeq(arr, k + 1, final)

ToSet(arr) == {arr[i] : i \in 1..Len(arr)}

\* ------------------------------------------------------------------ Set
has(set, id) == \E i \in 1..Len(set) : set[i] = id

\* Variant: an array push in place of set.add, duplicates kept.
SetAdd_append(set, id) == Append(set, id)

\* set.add(id): appended when absent.
SetAdd(set, id) == IF has(set, id) THEN set ELSE Append(set, id)

\* set.delete(id)
SetDelete(set, id) == SelectSeq(set, LAMBDA x : x # id)

\* ids.forEach((id) => set.add(id))
RECURSIVE addEach(_, _)
addEach(set, ids) ==
  IF ids = <<>> THEN set ELSE addEach(SetAdd(set, Head(ids)), Tail(ids))

\* ids.forEach((id) => set.delete(id))
RECURSIVE deleteEach(_, _)
deleteEach(set, ids) ==
  IF ids = <<>> THEN set ELSE deleteEach(SetDelete(set, Head(ids)), Tail(ids))

\* new Set(arr); new Set(undefined) is the empty set.
NewSet(arr) == addEach(<<>>, arr)

\* ------------------------------------------------------ selection state
DEFAULT_SELECTION == [type |-> "ONLY_IN", selections |-> <<>>]

\* The absent optional range argument.
NoRange == <<>>

\* Row ranges the grid emits: [lo, hi) over row positions with lo <= hi,
\* also empty ones and ones starting at or reaching past the window's end.
Ranges == {range \in (0..WindowLen) \X (0..(WindowLen + 1)) : range[1] <= range[2]}

VARIABLES
  selection,   \* config.selection: the persisted SelectionState
  records,     \* config.records: Loadable<T>[] (the id of each loaded slot)
  total,       \* config.total: Loadable<number>
  lastOp,      \* the last step taken: a selectionType or "load"
  lastRange,   \* the range argument of the last selection event
  updated,     \* whether the last step called updateSettings with a selection
  snapshot,    \* the selection captured by the handler's closure at the last render
  pending,     \* an event was dispatched since the last render
  overwrote,   \* the last event replaced a write its snapshot did not contain
  page,        \* FlatRuns: params.page
  filterset,   \* FlatRuns: the form store's formset, persisted as settings.filterset
  sortString,  \* FlatRuns: the sort string of the sorts state
  isLoadingSettings,  \* FlatRuns: flatRunsSettings.isNotLoaded
  defaultObj,  \* the contents of the shared DEFAULT_SELECTION object
  aliased,     \* config.selection is the DEFAULT_SELECTION object itself
  inputIntact, \* the last event left the object it read as it was
  readDefault  \* the last event read the DEFAULT_SELECTION object

\* What the closure of handleSelectionChange holds between two renders.
staleVars == <<snapshot, pending, overwrote>>

\* The page's own state next to the selection.
flatRunsVars == <<page, filterset, sortString, isLoadingSettings>>

\* Object identity: which object is read, and what the shared constant holds.
aliasVars == <<defaultObj, aliased, inputIntact, readDefault>>

vars == <<selection, records, total, lastOp, lastRange, updated,
          staleVars, flatRunsVars, aliasVars>>

\* ---------------------------------------------------------- useSelection
\* Variant: the grid projection's getOrElse(1) - 1 used for the size.
selectionSize_gridDefault(sel, tot) ==
  IF sel.type = "ONLY_IN"
    THEN Len(sel.selections)
    ELSE getOrElse(tot, 1) - 1 - Len(sel.exclusions)

selectionSize(sel, tot) ==
  IF sel.type = "ONLY_IN"
    THEN Len(sel.selections)
    ELSE getOrElse(tot, 0) - Len(sel.exclusions)

\* Variant: the range's end taken as inclusive.
rowRangeToIds_inclusive(recs, range) ==
  filterNotLoaded(slice(recs, range[1], range[2] + 1))

\* Variant: the slice starts at the window's first row, not at the range's.
rowRangeToIds_fromZero(recs, range) ==
  filterNotLoaded(slice(recs, 0, range[2]))

rowRangeToIds(recs, range) ==
  filterNotLoaded(slice(recs, range[1], range[2]))

\* Variant: 'add' appends the range's ids to the list, without the Set.
newSettingsAdd_concat(sel, recs, range) ==
  IF sel.type = "ALL_EXCEPT"
    THEN [sel EXCEPT !.exclusions =
            deleteEach(NewSet(sel.exclusions), rowRangeToIds(recs, range))]
    ELSE [sel EXCEPT !.selections = sel.selections \o rowRangeToIds(recs, range)]

\* case 'add': re-include the range's ids (ALL_EXCEPT) or include them.
newSettingsAdd(sel, recs, range) ==
  IF sel.type = "ALL_EXCEPT"
    THEN [sel EXCEPT !.exclusions =
            deleteEach(NewSet(sel.exclusions), rowRangeToIds(recs, range))]
    ELSE [sel EXCEPT !.selections =
            addEach(NewSet(sel.selections), rowRangeToIds(recs, range))]

\* case 'add-all'
newSettingsAddAll == [exclusions |-> <<>>, type |-> "ALL_EXCEPT"]

\* Variant: 'remove' on ALL_EXCEPT excludes every loaded record of the window.
newSettingsRemove_wholeWindow(sel, recs, range) ==
  IF sel.type = "ALL_EXCEPT"
    THEN [sel EXCEPT !.exclusions =
            addEach(NewSet(sel.exclusions), filterNotLoaded(recs))]
    ELSE [sel EXCEPT !.selections =
            deleteEach(NewSet(sel.selections), rowRangeToIds(recs, range))]

\* Variant: 'remove' with the two variants' branches exchanged.
newSettingsRemove_swapped(sel, recs, range) ==
  IF sel.type = "ALL_EXCEPT"
    THEN [sel EXCEPT !.exclusions =
            deleteEach(NewSet(sel.exclusions), rowRangeToIds(recs, range))]
    ELSE [sel EXCEPT !.selections =
            addEach(NewSet(sel.selections), rowRangeToIds(recs, range))]

\* case 'remove': exclude the range's ids (ALL_EXCEPT) or drop them.
newSettingsRemove(sel, recs, range) ==
  IF sel.type = "ALL_EXCEPT"
    THEN [sel EXCEPT !.exclusions =
            addEach(NewSet(sel.exclusions), rowRangeToIds(recs, range))]
    ELSE [sel EXCEPT !.selections =
            deleteEach(NewSet(sel.selections), rowRangeToIds(recs, range))]

\* Variant: 'set' builds its state with an exclusions list beside selections.
newSettingsSet_mixed(recs, range) ==
  [type |-> "ONLY_IN", selections |-> rowRangeToIds(recs, range), exclusions |-> <<>>]

\* Variant: 'set' taking every loaded record, not only the range's.
newSettingsSet_allLoaded(recs, range) ==
  [DEFAULT_SELECTION EXCEPT !.selections = filterNotLoaded(recs)]

\* case 'set': { ...DEFAULT_SELECTION, selections: Array.from(rowRangeToIds(range)) }
newSettingsSet(recs, range) ==
  [DEFAULT_SELECTION EXCEPT !.selections = rowRangeToIds(recs, range)]

\* Variant: 'set' adds the range's ids to the selections it found.
handleSelectionChange_setKeepsPrior(sel, recs, selectionType, range) ==
  CASE selectionType = "add" ->
         IF range = NoRange THEN [called |-> FALSE]
         ELSE [called |-> TRUE, selection |-> newSettingsAdd(sel, recs, range)]
    [] selectionType = "add-all" ->
         [called |-> TRUE, selection |-> newSettingsAddAll]
    [] selectionType = "remove" ->
         IF range = NoRange THEN [called |-> FALSE]
         ELSE [called |-> TRUE, selection |-> newSettingsRemove(sel, recs, range)]
    [] selectionType = "remove-all" ->
         [called |-> TRUE, selection |-> DEFAULT_SELECTION]
    [] selectionType = "set" ->
         IF range = NoRange THEN [called |-> FALSE]
         ELSE [called |-> TRUE,
               selection |-> [DEFAULT_SELECTION EXCEPT !.selections =
                 addEach(NewSet(IF sel.type = "ONLY_IN" THEN sel.selections ELSE <<>>),
                         rowRangeToIds(recs, range))]]

\* Variant: 'remove-all' empties the id list and keeps the variant.
handleSelectionChange_removeAllKeepsType(sel, recs, selectionType, range) ==
  CASE selectionType = "add" ->
         IF range = NoRange THEN [called |-> FALSE]
         ELSE [called |-> TRUE, selection |-> newSettingsAdd(sel, recs, range)]
    [] selectionType = "add-all" ->
         [called |-> TRUE, selection |-> newSettingsAddAll]
    [] selectionType = "remove" ->
         IF range = NoRange THEN [called |-> FALSE]
         ELSE [called |-> TRUE, selection |-> newSettingsRemove(sel, recs, range)]
    [] selectionType = "remove-all" ->
         [called |-> TRUE,
          selection |-> IF sel.type = "ALL_EXCEPT"
                          THEN [sel EXCEPT !.exclusions = <<>>]
                          ELSE [sel EXCEPT !.selections = <<>>]]
    [] selectionType = "set" ->
         IF range = NoRange THEN [called |-> FALSE]
         ELSE [called |-> TRUE, selection |-> newSettingsSet(recs, range)]

\* Variant: 'set' lacks the early return and takes a missing range as empty.
handleSelectionChange_setNoGuard(sel, recs, selectionType, range) ==
  CASE selectionType = "add" ->
         IF range = NoRange THEN [called |-> FALSE]
         ELSE [called |-> TRUE, selection |-> newSettingsAdd(sel, recs, range)]
    [] selectionType = "add-all" ->
         [called |-> TRUE, selection |-> newSettingsAddAll]
    [] selectionType = "remove" ->
         IF range = NoRange THEN [called |-> FALSE]
         ELSE [called |-> TRUE, selection |-> newSettingsRemove(sel, recs, range)]
    [] selectionType = "remove-all" ->
         [called |-> TRUE, selection |-> DEFAULT_SELECTION]
    [] selectionType = "set" ->
         IF range = NoRange THEN [called |-> TRUE, selection |-> DEFAULT_SELECTION]
         ELSE [called |-> TRUE, selection |-> newSettingsSet(recs, range)]

\* handleSelectionChange(selectionType, range): called says whether the
\* handler reached updateSettings({ selection: newSettings }).
handleSelectionChange(sel, recs, selectionType, range) ==
  CASE selectionType = "add" ->
         IF range = NoRange THEN [called |-> FALSE]
         ELSE [called |-> TRUE, selection |-> newSettingsAdd(sel, recs, range)]
    [] selectionType = "add-all" ->
         [called |-> TRUE, selection |-> newSettingsAddAll]
    [] selectionType = "remove" ->
         IF range = NoRange THEN [called |-> FALSE]
         ELSE [called |-> TRUE, selection |-> newSettingsRemove(sel, recs, range)]
    [] selectionType = "remove-all" ->
         [called |-> TRUE, selection |-> DEFAULT_SELECTION]
    [] selectionType = "set" ->
         IF range = NoRange THEN [called |-> FALSE]
         ELSE [called |-> TRUE, selection |-> newSettingsSet(recs, range)]

\* Variant: ALL_EXCEPT tested like ONLY_IN, without the negation.
isRangeSelected_noInvert(sel, recs, range) ==
  LET idSet == NewSet(IF sel.type = "ONLY_IN" THEN sel.selections ELSE sel.exclusions)
  IN  \A i \in 1..Len(rowRangeToIds(recs, range)) :
        has(idSet, rowRangeToIds(recs, range)[i])

isRangeSelected(sel, recs, range) ==
  IF sel.type = "ONLY_IN"
    THEN LET includedSet == NewSet(sel.selections)
         IN  \A i \in 1..Len(rowRangeToIds(recs, range)) :
               has(includedSet, rowRangeToIds(recs, range)[i])
    ELSE LET excludedSet == NewSet(sel.exclusions)
         IN  \A i \in 1..Len(rowRangeToIds(recs, range)) :
               ~has(excludedSet, rowRangeToIds(recs, range)[i])

\* Variant: the map keeps a 1-based row number in place of the index.
loadedRecordIdMap_oneBased(recs) ==
  [id \in {recs[i] : i \in {j \in 1..Len(recs) : isLoaded(recs[j])}} |->
     CHOOSE i \in 1..Len(recs) : recs[i] = id /\ \A j \in 1..Len(recs) : recs[j] = id => j <= i]

\* loadedRecordIdMap: id -> index of the loaded slot holding it (the last
\* one when an id repeats, as recordMap.set overwrites).
loadedRecordIdMap(recs) ==
  [id \in {recs[i] : i \in {j \in 1..Len(recs) : isLoaded(recs[j])}} |->
     (CHOOSE i \in 1..Len(recs) : recs[i] = id /\ \A j \in 1..Len(recs) : recs[j] = id => j <= i) - 1]

\* glide-data-grid CompactSelection, as the set of row indices it holds
\* (hasIndex). add(n) is add([n, n + 1]); a Slice [start, end] is half-open:
\* hasIndex(i) tests start <= i < end.
CompactSelectionEmpty == {}

CompactSelectionAdd(rows, index) == rows \cup {index}

CompactSelectionAddSlice(rows, slice_) == rows \cup (slice_[1]..(slice_[2] - 1))

CompactSelectionRemove(rows, index) == rows \ {index}

\* Variant: the loop ends at the first id the map does not resolve.
RECURSIVE addRows_stopAtUnloaded(_, _, _)
addRows_stopAtUnloaded(rows, ids, map) ==
  IF ids = <<>> \/ Head(ids) \notin DOMAIN map THEN rows
  ELSE addRows_stopAtUnloaded(CompactSelectionAdd(rows, map[Head(ids)]), Tail(ids), map)

\* selections.forEach: rows.add(index) for each id the map resolves.
RECURSIVE addRows(_, _, _)
addRows(rows, ids, map) ==
  IF ids = <<>> THEN rows
  ELSE addRows(IF Head(ids) \in DOMAIN map
                 THEN CompactSelectionAdd(rows, map[Head(ids)]) ELSE rows,
               Tail(ids), map)

\* exclusions.forEach: rows.remove(index) for each id the map resolves.
RECURSIVE removeRows(_, _, _)
removeRows(rows, ids, map) ==
  IF ids = <<>> THEN rows
  ELSE removeRows(IF Head(ids) \in DOMAIN map
                    THEN CompactSelectionRemove(rows, map[Head(ids)]) ELSE rows,
                  Tail(ids), map)

\* Variant: an unknown total falls back to the number of window slots.
dataGridSelection_windowDefault(sel, recs, tot) ==
  IF sel.type = "ONLY_IN"
    THEN addRows(CompactSelectionEmpty, sel.selections, loadedRecordIdMap(recs))
    ELSE removeRows(
           CompactSelectionAddSlice(CompactSelectionEmpty,
                                    <<0, getOrElse(tot, Len(recs)) - 1>>),
           sel.exclusions, loadedRecordIdMap(recs))

\* dataGridSelection.rows (columns is always empty).
dataGridSelection(sel, recs, tot) ==
  IF sel.type = "ONLY_IN"
    THEN addRows(CompactSelectionEmpty, sel.selections, loadedRecordIdMap(recs))
    ELSE removeRows(
           CompactSelectionAddSlice(CompactSelectionEmpty, <<0, getOrElse(tot, 1) - 1>>),
           sel.exclusions, loadedRecordIdMap(recs))

\* selectedRecordIdSet; Loadable.filterNotLoaded(arr, pred) keeps the loaded
\* values that satisfy pred.
selectedRecordIdSet(sel, recs) ==
  IF sel.type = "ONLY_IN"
    THEN NewSet(sel.selections)
    ELSE LET excludedSet == NewSet(sel.exclusions)
         IN  NewSet(SelectSeq(recs, LAMBDA id : isLoaded(id) /\ ~has(excludedSet, id)))

\* loadedSelectedRecords; a record is its id, so this is also
\* loadedSelectedRecordIds.
loadedSelectedRecords(sel, recs) ==
  SelectSeq(recs, LAMBDA id : isLoaded(id) /\ has(selectedRecordIdSet(sel, recs), id))

\* FlatRuns.tsx loadedSelectedRuns (settings loaded): selectedArray.
loadedSelectedRuns(sel, recs) ==
  LET selectedIdSet == NewSet(IF sel.type = "ONLY_IN" THEN sel.selections ELSE <<>>)
  IN  SelectSeq(recs, LAMBDA id : isLoaded(id) /\ has(selectedIdSet, id))

\* FlatRuns.tsx selection.rows: the indices kept in selectedMap.
flatRunsSelection(sel, recs) ==
  LET selectedIdSet == NewSet(IF sel.type = "ONLY_IN" THEN sel.selections ELSE <<>>)
  IN  {i - 1 : i \in {j \in 1..Len(recs) : isLoaded(recs[j]) /\ has(selectedIdSet, recs[j])}}

\* ------------------------------------------------------------------ Init
\* ------------------------------------------------- FlatRuns.tsx mutator
\* FlatRuns.tsx rowRangeToIds: runs.slice(range[0], range[1]), loaded ids.
flatRunsRowRangeToIds(recs, range) ==
  filterNotLoaded(slice(recs, range[1], range[2]))

\* FlatRuns.tsx handleSelectionChange over settings.selection and runs;
\* called says whether it reached updateSettings({ selection: newSettings }).
flatRunsHandleSelectionChange(sel, recs, selectionType, range) ==
  CASE selectionType = "add" ->
         IF range = NoRange THEN [called |-> FALSE]
         ELSE IF sel.type = "ALL_EXCEPT"
           THEN [called |-> TRUE,
                 selection |-> [sel EXCEPT !.exclusions =
                   deleteEach(NewSet(sel.exclusions), flatRunsRowRangeToIds(recs, range))]]
           ELSE [called |-> TRUE,
                 selection |-> [sel EXCEPT !.selections =
                   addEach(NewSet(sel.selections), flatRunsRowRangeToIds(recs, range))]]
    [] selectionType = "add-all" ->
         [called |-> TRUE, selection |-> [exclusions |-> <<>>, type |-> "ALL_EXCEPT"]]
    [] selectionType = "remove" ->
         IF range = NoRange THEN [called |-> FALSE]
         ELSE IF sel.type = "ALL_EXCEPT"
           THEN [called |-> TRUE,
                 selection |-> [sel EXCEPT !.exclusions =
                   addEach(NewSet(sel.exclusions), flatRunsRowRangeToIds(recs, range))]]
           ELSE [called |-> TRUE,
                 selection |-> [sel EXCEPT !.selections =
                   deleteEach(NewSet(sel.selections), flatRunsRowRangeToIds(recs, range))]]
    [] selectionType = "remove-all" ->
         [called |-> TRUE, selection |-> DEFAULT_SELECTION]
    [] selectionType = "set" ->
         IF range = NoRange THEN [called |-> FALSE]
         ELSE [called |-> TRUE,
               selection |-> [DEFAULT_SELECTION EXCEPT !.selections =
                                flatRunsRowRangeToIds(recs, range)]]

\* ---------------------------------------------------- persisted settings
\* Persisted records that do not decode: an unknown type, or the variant's
\* id array missing.
MalformedSelections ==
  {[type |-> "ONLY_IN"], [type |-> "ALL_EXCEPT"], [type |-> "NONE"]}
    \cup {[type |-> t, selections |-> ids] :
            t \in {"ALL_EXCEPT", "NONE"}, ids \in {<<>>, <<1>>}}
    \cup {[type |-> t, exclusions |-> ids] :
            t \in {"ONLY_IN", "NONE"}, ids \in {<<>>, <<1>>}}

\* Records the settings store may hold for the selection.
PersistedSelections ==
  MalformedSelections
    \cup {[type |-> "ONLY_IN", selections |-> ids] : ids \in {<<>>} \cup {<<id>> : id \in Ids}}
    \cup {[type |-> "ALL_EXCEPT", exclusions |-> ids] : ids \in {<<>>} \cup {<<id>> : id \in Ids}}

\* Variant: the persisted record is handed on as it was stored.
decodeSelection_unchecked(raw) == raw

\* The settings store decodes the persisted selection against its codec
\* { type: 'ONLY_IN', selections } | { type: 'ALL_EXCEPT', exclusions };
\* a record that does not decode yields the default.
decodeSelection(raw) ==
  IF raw.type = "ONLY_IN" /\ "selections" \in DOMAIN raw
    THEN [type |-> "ONLY_IN", selections |-> raw.selections]
  ELSE IF raw.type = "ALL_EXCEPT" /\ "exclusions" \in DOMAIN raw
    THEN [type |-> "ALL_EXCEPT", exclusions |-> raw.exclusions]
  ELSE DEFAULT_SELECTION

\* ------------------------------------------------------- initial state
Init ==
  /\ selection = DEFAULT_SELECTION
  /\ records = [p \in 1..WindowLen |-> NotLoaded]
  /\ total = NotLoaded
  /\ lastOp = "init"
  /\ lastRange = NoRange
  /\ updated = FALSE
  /\ snapshot = DEFAULT_SELECTION
  /\ pending = FALSE
  /\ overwrote = FALSE
  /\ page = 0
  /\ filterset = "filterA"
  /\ sortString = "sortA"
  /\ isLoadingSettings = FALSE
  /\ defaultObj = DEFAULT_SELECTION
  /\ aliased = TRUE
  /\ inputIntact = TRUE
  /\ readDefault = FALSE

\* --------------------------------------------------- selection events
\* The grid calls handleSelectionChange(selectionType, range); when the
\* handler reaches updateSettings({ selection: newSettings }) the settings
\* store hands newSettings back as config.selection.
Dispatch(selectionType, range) ==
  LET r == handleSelectionChange(selection, records, selectionType, range)
  IN  /\ selection' = IF r.called THEN r.selection ELSE selection
      /\ updated' = r.called
      /\ lastOp' = selectionType
      /\ lastRange' = range
      /\ UNCHANGED <<records, total, staleVars, flatRunsVars, aliasVars>>

Add == \E range \in Ranges \cup {NoRange} : Dispatch("add", range)

AddAll == Dispatch("add-all", NoRange)

Remove == \E range \in Ranges \cup {NoRange} : Dispatch("remove", range)

RemoveAll == Dispatch("remove-all", NoRange)

Set == \E range \in Ranges \cup {NoRange} : Dispatch("set", range)

\* Variant: a loader step also writes the default selection, as the
\* filter-change subscription does.
Loader_resetsSelection ==
  /\ lastOp' = "load"
  /\ lastRange' = NoRange
  /\ updated' = FALSE
  /\ selection' = DEFAULT_SELECTION
  /\ UNCHANGED <<staleVars, flatRunsVars, aliasVars>>

\* --------------------------------------------------------- data loader
Loader ==
  /\ lastOp' = "load"
  /\ lastRange' = NoRange
  /\ updated' = FALSE
  /\ UNCHANGED <<selection, staleVars, flatRunsVars, aliasVars>>

\* fetchRuns: setRuns puts Loaded(run) at a position; a position that was
\* pending resolves, or (a refetch after the data changed) holds another
\* record. Ids are unique within the dataset.
LoadRecord ==
  \E p \in Positions, id \in Ids :
    /\ \A q \in Positions : records[q + 1] # id
    /\ records' = [records EXCEPT ![p + 1] = id]
    /\ UNCHANGED total
    /\ Loader

\* resetPagination / onPageChange: every slot goes back to NotLoaded.
ResetRecords ==
  /\ records' = [p \in 1..WindowLen |-> NotLoaded]
  /\ UNCHANGED total
  /\ Loader

\* fetchRuns: setTotal(Loaded(response.pagination.total)) or NotLoaded.
SetTotal ==
  \E n \in (0..MaxTotal) \cup {NotLoaded} :
    /\ total' = n
    /\ UNCHANGED records
    /\ Loader

Next ==
  \/ Add
  \/ AddAll
  \/ Remove
  \/ RemoveAll
  \/ Set
  \/ LoadRecord
  \/ ResetRecords
  \/ SetTotal

Spec == Init /\ [][Next]_vars

\* ------------------------------------------- events between two renders
SelectionTypes == {"add", "add-all", "remove", "remove-all", "set"}

\* Variant: the handler reads the state the store holds at the call.
DispatchStale_readsStore(selectionType, range) ==
  LET r == handleSelectionChange(selection, records, selectionType, range)
  IN  /\ selection' = IF r.called THEN r.selection ELSE selection
      /\ updated' = r.called
      /\ lastOp' = selectionType
      /\ lastRange' = range
      /\ pending' = TRUE
      /\ overwrote' = FALSE
      /\ UNCHANGED <<records, total, snapshot, flatRunsVars, aliasVars>>

\* handleSelectionChange is a useCallback over config: until the component
\* renders again it computes from the config.selection it captured, and
\* updateSettings({ selection: newSettings }) replaces the stored selection.
DispatchStale(selectionType, range) ==
  LET r == handleSelectionChange(snapshot, records, selectionType, range)
      sequential == handleSelectionChange(selection, records, selectionType, range)
  IN  /\ selection' = IF r.called THEN r.selection ELSE selection
      /\ updated' = r.called
      /\ lastOp' = selectionType
      /\ lastRange' = range
      /\ pending' = TRUE
      /\ overwrote' = (r.called /\ selection # snapshot /\ r # sequential)
      /\ UNCHANGED <<records, total, snapshot, flatRunsVars, aliasVars>>

EventStale ==
  \E selectionType \in SelectionTypes, range \in Ranges \cup {NoRange} :
    /\ selectionType \in {"add-all", "remove-all"} => range = NoRange
    /\ DispatchStale(selectionType, range)

\* The store's new value reaches the component: the callback is rebuilt
\* over the current config.selection.
Render ==
  /\ pending
  /\ snapshot' = selection
  /\ pending' = FALSE
  /\ overwrote' = FALSE
  /\ UNCHANGED <<selection, records, total, lastOp, lastRange, updated,
                 flatRunsVars, aliasVars>>

\* setRuns renders the component as well.
LoadRecordRender ==
  \E p \in Positions, id \in Ids :
    /\ \A q \in Positions : records[q + 1] # id
    /\ records' = [records EXCEPT ![p + 1] = id]
    /\ lastOp' = "load"
    /\ lastRange' = NoRange
    /\ updated' = FALSE
    /\ snapshot' = selection
    /\ pending' = FALSE
    /\ overwrote' = FALSE
    /\ UNCHANGED <<selection, total, flatRunsVars, aliasVars>>

NextStale ==
  \/ EventStale
  \/ Render
  \/ LoadRecordRender

SpecStale == Init /\ [][NextStale]_vars

\* ------------------------------------------------------ object identity
\* Variant: newSettings is config.selection itself, not a copy of it.
newSettingsIsCopy_noSpread == FALSE

\* let newSettings = { ...config.selection }: the handler works on a fresh
\* object, and each branch assigns a fresh array (Array.from) or a fresh
\* object to it.
newSettingsIsCopy == TRUE

\* The contents of the object the handler read as config.selection, once
\* the handler has returned: 'add' and 'remove' assign newSettings.selections
\* or newSettings.exclusions, the other branches rebind newSettings.
selectionAfterCall(sel, recs, selectionType, range) ==
  IF ~newSettingsIsCopy /\ selectionType \in {"add", "remove"} /\ range # NoRange
    THEN handleSelectionChange(sel, recs, selectionType, range).selection
    ELSE sel

\* An event with the objects followed: 'remove-all' stores the
\* DEFAULT_SELECTION object itself, every other write stores a new object.
DispatchAlias(selectionType, range) ==
  LET r == handleSelectionChange(selection, records, selectionType, range)
      after == selectionAfterCall(selection, records, selectionType, range)
  IN  /\ selection' = IF r.called THEN r.selection ELSE selection
      /\ updated' = r.called
      /\ lastOp' = selectionType
      /\ lastRange' = range
      /\ defaultObj' = IF aliased THEN after ELSE defaultObj
      /\ inputIntact' = (after = selection)
      /\ readDefault' = aliased
      /\ aliased' = IF r.called THEN selectionType = "remove-all" ELSE aliased
      /\ UNCHANGED <<records, total, staleVars, flatRunsVars>>

EventAlias ==
  \E selectionType \in SelectionTypes, range \in Ranges \cup {NoRange} :
    /\ selectionType \in {"add-all", "remove-all"} => range = NoRange
    /\ DispatchAlias(selectionType, range)

NextAlias ==
  \/ EventAlias
  \/ LoadRecord
  \/ ResetRecords
  \/ SetTotal

SpecAlias == Init /\ [][NextAlias]_vars

\* ------------------------------------------------------- FlatRuns page
\* Pages the pagination offers: 0..MaxPage.
MaxPage == 1

\* Two filter form sets and two sort strings are enough to change either.
FiltersetValues == {"filterA", "filterB"}

SortValues == {"sortA", "sortB"}

\* The settings are still loading: the store holds a persisted selection,
\* filterset and sort string; the page comes from the URL.
InitFlatRuns ==
  /\ selection \in {decodeSelection(raw) : raw \in PersistedSelections}
  /\ records = [p \in 1..WindowLen |-> NotLoaded]
  /\ total = NotLoaded
  /\ lastOp = "init"
  /\ lastRange = NoRange
  /\ updated = FALSE
  /\ snapshot = DEFAULT_SELECTION
  /\ pending = FALSE
  /\ overwrote = FALSE
  /\ page \in 0..MaxPage
  /\ filterset \in FiltersetValues
  /\ sortString \in SortValues
  /\ isLoadingSettings = TRUE
  /\ defaultObj = DEFAULT_SELECTION
  /\ aliased = TRUE
  /\ inputIntact = TRUE
  /\ readDefault = FALSE

\* resetPagination: setPage(0); setRuns(INITIAL_LOADING_RUNS).
resetPagination ==
  /\ page' = 0
  /\ records' = [p \in 1..WindowLen |-> NotLoaded]

\* Variant: the form store is subscribed to before it is initialised, so
\* that the initialisation runs the subscriber.
SettingsLoaded_subscribesFirst ==
  /\ isLoadingSettings
  /\ isLoadingSettings' = FALSE
  /\ resetPagination
  /\ selection' = DEFAULT_SELECTION
  /\ lastOp' = "settings"
  /\ lastRange' = NoRange
  /\ updated' = TRUE
  /\ UNCHANGED <<total, filterset, sortString, staleVars, aliasVars>>

\* The settings observable turns loaded: the effect initialises the form
\* store from settings.filterset and only then subscribes to its changes;
\* settings.selection is the selection the store holds.
SettingsLoaded ==
  /\ isLoadingSettings
  /\ isLoadingSettings' = FALSE
  /\ lastOp' = "settings"
  /\ lastRange' = NoRange
  /\ updated' = FALSE
  /\ UNCHANGED <<selection, records, total, page, filterset, sortString,
                 staleVars, aliasVars>>

\* Variant: the subscriber persists the filterset only.
FilterChange_keepsSelection ==
  /\ ~isLoadingSettings
  /\ \E f \in FiltersetValues :
       /\ f # filterset
       /\ filterset' = f
  /\ resetPagination
  /\ lastOp' = "filter"
  /\ lastRange' = NoRange
  /\ updated' = FALSE
  /\ UNCHANGED <<selection, total, sortString, isLoadingSettings, staleVars, aliasVars>>

\* The subscriber of formStore.asJsonString: resetPagination(), then
\* updateSettings({ filterset, selection: DEFAULT_SELECTION }).
FilterChange ==
  /\ ~isLoadingSettings
  /\ \E f \in FiltersetValues :
       /\ f # filterset
       /\ filterset' = f
  /\ resetPagination
  /\ selection' = DEFAULT_SELECTION
  /\ lastOp' = "filter"
  /\ lastRange' = NoRange
  /\ updated' = TRUE
  /\ UNCHANGED <<total, sortString, isLoadingSettings, staleVars, aliasVars>>

\* Variant: a new sort string also persists the default selection.
SortChange_resetsSelection ==
  /\ ~isLoadingSettings
  /\ \E newSortString \in SortValues :
       /\ sortString' = newSortString
       /\ IF newSortString # sortString
            THEN resetPagination /\ selection' = DEFAULT_SELECTION
            ELSE UNCHANGED <<page, records, selection>>
  /\ lastOp' = "sort"
  /\ lastRange' = NoRange
  /\ updated' = FALSE
  /\ UNCHANGED <<total, filterset, isLoadingSettings, staleVars, aliasVars>>

\* handleSortChange: setSorts(sorts); resetPagination() when the sort string
\* differs; updateSettings({ sortString: newSortString }).
SortChange ==
  /\ ~isLoadingSettings
  /\ \E newSortString \in SortValues :
       /\ sortString' = newSortString
       /\ IF newSortString # sortString
            THEN resetPagination
            ELSE UNCHANGED <<page, records>>
  /\ lastOp' = "sort"
  /\ lastRange' = NoRange
  /\ updated' = FALSE
  /\ UNCHANGED <<selection, total, filterset, isLoadingSettings, staleVars, aliasVars>>

\* onPageChange(cPage, cPageSize): updateSettings({ pageLimit }); the window
\* is emptied when cPage - 1 differs from page; setPage(cPage - 1).
PageChange ==
  /\ \E cPage \in 1..(MaxPage + 1) :
       /\ IF cPage - 1 # page
            THEN records' = [p \in 1..WindowLen |-> NotLoaded]
            ELSE UNCHANGED records
       /\ page' = cPage - 1
  /\ lastOp' = "page"
  /\ lastRange' = NoRange
  /\ updated' = FALSE
  /\ UNCHANGED <<selection, total, filterset, sortString, isLoadingSettings,
                 staleVars, aliasVars>>

\* The grid's selection event served by the page's own handler.
FlatRunsEvent ==
  /\ ~isLoadingSettings
  /\ \E selectionType \in SelectionTypes, range \in Ranges \cup {NoRange} :
       LET r == flatRunsHandleSelectionChange(selection, records, selectionType, range)
       IN  /\ selectionType \in {"add-all", "remove-all"} => range = NoRange
           /\ selection' = IF r.called THEN r.selection ELSE selection
           /\ updated' = r.called
           /\ lastOp' = selectionType
           /\ lastRange' = range
  /\ UNCHANGED <<records, total, flatRunsVars, staleVars, aliasVars>>

\* fetchRuns returns early while the settings load.
FetchRuns ==
  /\ ~isLoadingSettings
  /\ LoadRecord

NextFlatRuns ==
  \/ SettingsLoaded
  \/ FilterChange
  \/ SortChange
  \/ PageChange
  \/ FlatRunsEvent
  \/ FetchRuns

SpecFlatRuns == InitFlatRuns /\ [][NextFlatRuns]_vars

\* ============================================================== properties
\* The ids of the loaded slots of recs at positions range[1]..range[2]-1.
idsInRange(recs, range) ==
  {recs[p + 1] : p \in {q \in range[1]..(range[2] - 1) :
                          /\ q \in 0..(Len(recs) - 1)
                          /\ recs[q + 1] # NotLoaded}}

\* The ids a state tracks, whatever its variant.
idsOf(sel) == IF sel.type = "ONLY_IN" THEN ToSet(sel.selections)
                                      ELSE ToSet(sel.exclusions)

\* Whether the state selects id.
selects(sel, id) == IF sel.type = "ONLY_IN" THEN id \in ToSet(sel.selections)
                                            ELSE id \notin ToSet(sel.exclusions)

\* C1: an 'add' over a range writes a state of the same variant; ONLY_IN
\* gains exactly the loaded ids of the range, ALL_EXCEPT loses exactly
\* them from its exclusions.
C1_AddWrites ==
  [][(lastOp' = "add" /\ updated') =>
       /\ selection'.type = selection.type
       /\ DOMAIN selection' = DOMAIN selection
       /\ IF selection.type = "ONLY_IN"
            THEN ToSet(selection'.selections) =
                   ToSet(selection.selections) \cup idsInRange(records, lastRange')
            ELSE ToSet(selection'.exclusions) =
                   ToSet(selection.exclusions) \ idsInRange(records, lastRange')]_vars

\* An 'add' joined loaded ids of its range to ids selected before it.
C1_Witness ==
  /\ lastOp = "add" /\ updated
  /\ selection.type = "ONLY_IN"
  /\ idsInRange(records, lastRange) # {}
  /\ ToSet(selection.selections) \ idsInRange(records, lastRange) # {}

\* C2: a 'remove' over a range writes a state of the same variant; ONLY_IN
\* loses exactly the loaded ids of the range, ALL_EXCEPT gains exactly
\* them as exclusions.
C2_RemoveWrites ==
  [][(lastOp' = "remove" /\ updated') =>
       /\ selection'.type = selection.type
       /\ DOMAIN selection' = DOMAIN selection
       /\ IF selection.type = "ONLY_IN"
            THEN ToSet(selection'.selections) =
                   ToSet(selection.selections) \ idsInRange(records, lastRange')
            ELSE ToSet(selection'.exclusions) =
                   ToSet(selection.exclusions) \cup idsInRange(records, lastRange')]_vars

\* A 'remove' of a range holding one loaded id x left ALL_EXCEPT {x}.
C2_Witness ==
  /\ lastOp = "remove" /\ updated
  /\ selection.type = "ALL_EXCEPT"
  /\ Len(selection.exclusions) = 1
  /\ ToSet(selection.exclusions) = idsInRange(records, lastRange)

\* C3: a 'set' over a range writes ONLY_IN whose selections are exactly the
\* loaded ids of the range, whatever the state before it.
C3_SetReplaces ==
  (lastOp = "set" /\ updated) =>
    /\ selection.type = "ONLY_IN"
    /\ DOMAIN selection = {"type", "selections"}
    /\ ToSet(selection.selections) = idsInRange(records, lastRange)
    /\ Len(selection.selections) = Cardinality(idsInRange(records, lastRange))

\* A 'set' over the whole, fully loaded window.
C3_Witness ==
  /\ lastOp = "set" /\ updated
  /\ \A p \in Positions : records[p + 1] # NotLoaded
  /\ selection.selections = records

\* C4: 'add-all' writes ALL_EXCEPT with no exclusions, and with a known
\* total N the selection size is N.
C4_AddAll ==
  lastOp = "add-all" =>
    /\ updated
    /\ selection.type = "ALL_EXCEPT"
    /\ DOMAIN selection = {"type", "exclusions"}
    /\ selection.exclusions = <<>>
    /\ (total # NotLoaded => selectionSize(selection, total) = total)

C4_Witness ==
  lastOp = "add-all" /\ total # NotLoaded /\ total > 0

\* C5: 'remove-all' writes the default empty state, ONLY_IN with no
\* selections, whatever the state before it.
C5_RemoveAll ==
  lastOp = "remove-all" =>
    /\ updated
    /\ selection.type = "ONLY_IN"
    /\ DOMAIN selection = {"type", "selections"}
    /\ selection.selections = <<>>

C5_Witness ==
  lastOp = "remove-all" /\ updated /\ selectionSize(selection, total) = 0

\* C6: with a known total N the selection size lies in 0..N.
C6_SizeWithinTotal ==
  total # NotLoaded =>
    /\ 0 <= selectionSize(selection, total)
    /\ selectionSize(selection, total) <= total

\* C7: with the total not loaded the size of an ALL_EXCEPT state is not
\* negative.
C7_SizeUnknownTotal ==
  (total = NotLoaded /\ selection.type = "ALL_EXCEPT") =>
    selectionSize(selection, total) >= 0

\* C8: a range is selected iff the state selects every loaded id of it; a
\* range with no loaded slot is selected.
C8_IsRangeSelected ==
  \A range \in Ranges :
    isRangeSelected(selection, records, range) <=>
      \A id \in idsInRange(records, range) : selects(selection, id)

\* An ALL_EXCEPT state with a range that is not selected, a loaded range
\* that is, and the range past the window.
C8_Witness ==
  /\ selection.type = "ALL_EXCEPT"
  /\ \E range \in Ranges : ~isRangeSelected(selection, records, range)
  /\ \E range \in Ranges : /\ idsInRange(records, range) # {}
                           /\ isRangeSelected(selection, records, range)
  /\ isRangeSelected(selection, records, <<WindowLen, WindowLen + 1>>)

\* C9: after 'set' over r and with the window as it was, a range r2 is
\* selected exactly when every loaded id of r2 is a loaded id of r.
C9_SetThenIsRangeSelected ==
  (lastOp = "set" /\ updated) =>
    \A r2 \in Ranges :
      isRangeSelected(selection, records, r2) <=>
        idsInRange(records, r2) \subseteq idsInRange(records, lastRange)

\* After 'set' the range itself is selected and a wider one is not.
C9_Witness ==
  /\ lastOp = "set" /\ updated
  /\ idsInRange(records, lastRange) # {}
  /\ isRangeSelected(selection, records, lastRange)
  /\ ~isRangeSelected(selection, records, <<0, WindowLen>>)

\* C10: repeating the last selection event with the same range over the
\* same window writes the state it already wrote.
C10_Idempotent ==
  (lastOp \in {"add", "remove", "set", "add-all", "remove-all"} /\ updated) =>
    handleSelectionChange(selection, records, lastOp, lastRange) =
      [called |-> TRUE, selection |-> selection]

\* An 'add' that put the two loaded ids of its range into the state.
C10_Witness ==
  /\ lastOp = "add" /\ updated
  /\ selection.type = "ONLY_IN"
  /\ Cardinality(idsInRange(records, lastRange)) = 2
  /\ Len(selection.selections) = 2

\* C11: 'add', 'remove' and 'set' dispatched without a range leave the
\* selection as it was and do not call updateSettings; 'add-all' and
\* 'remove-all' call it without a range.
C11_RangeRequired ==
  [][/\ (lastOp' \in {"add", "remove", "set"} /\ lastRange' = NoRange) =>
          (~updated' /\ selection' = selection)
     /\ (lastOp' \in {"add-all", "remove-all"}) =>
          (lastRange' = NoRange /\ updated'
             /\ selection' = IF lastOp' = "add-all"
                               THEN [type |-> "ALL_EXCEPT", exclusions |-> <<>>]
                               ELSE [type |-> "ONLY_IN", selections |-> <<>>])]_vars

\* A 'set' without a range met a state with an exclusion and left it.
C11_Witness ==
  /\ lastOp = "set" /\ lastRange = NoRange /\ ~updated
  /\ selection.type = "ALL_EXCEPT"
  /\ selection.exclusions # <<>>

\* The positions 0..N-1 whose slot is not a loaded record with an excluded id.
rowsAllExcept(sel, recs, n) ==
  {p \in 0..(n - 1) :
     ~(p < Len(recs) /\ recs[p + 1] # NotLoaded /\ recs[p + 1] \in ToSet(sel.exclusions))}

\* The positions whose slot is a loaded record with a selected id.
rowsOnlyIn(sel, recs) ==
  {p \in 0..(Len(recs) - 1) :
     recs[p + 1] # NotLoaded /\ recs[p + 1] \in ToSet(sel.selections)}

\* C12: for ALL_EXCEPT with a known total N the projected rows are the
\* positions 0..N-1 whose slot is not a loaded record with an excluded id.
C12_AllExceptRows ==
  (selection.type = "ALL_EXCEPT" /\ total # NotLoaded) =>
    dataGridSelection(selection, records, total) = rowsAllExcept(selection, records, total)

\* C13: for ONLY_IN the projected rows are the positions whose slot is a
\* loaded record with id in selections, at both call sites.
C13_OnlyInRows ==
  selection.type = "ONLY_IN" =>
    /\ dataGridSelection(selection, records, total) = rowsOnlyIn(selection, records)
    /\ flatRunsSelection(selection, records) = rowsOnlyIn(selection, records)

\* One selected id is loaded at position 1, another is not loaded.
C13_Witness ==
  /\ selection.type = "ONLY_IN"
  /\ dataGridSelection(selection, records, total) = {1}
  /\ \E id \in ToSet(selection.selections) : id \notin ToSet(records)

\* C14: with a known total N, a range of loaded positions within 0..N-1 is
\* selected iff each of its positions is in the projected rows.
C14_RangeMatchesRows ==
  total # NotLoaded =>
    \A range \in Ranges :
      (/\ range[2] <= total
       /\ range[2] <= Len(records)
       /\ \A p \in range[1]..(range[2] - 1) : records[p + 1] # NotLoaded) =>
        (isRangeSelected(selection, records, range) <=>
           \A p \in range[1]..(range[2] - 1) :
             p \in dataGridSelection(selection, records, total))

\* C15: an id selected in an ONLY_IN state and held by no window slot has
\* no projected position; when the loader resolves position p to it, the
\* selection is not written and the projection of the new state holds p.
C15_LoadedShowsSelected ==
  [][/\ selection.type = "ONLY_IN" =>
          \A x \in ToSet(selection.selections) \ ToSet(records) :
            dataGridSelection(selection, records, total) \subseteq
              {p \in 0..(Len(records) - 1) :
                 records[p + 1] \in ToSet(selection.selections) \ {x}}
     /\ \A p \in Positions, x \in Ids :
          (/\ selection.type = "ONLY_IN"
           /\ x \in ToSet(selection.selections)
           /\ x \notin ToSet(records)
           /\ records'[p + 1] = x) =>
            (/\ selection' = selection
             /\ p \in dataGridSelection(selection', records', total'))]_vars

\* After a loader step a selected id is shown at position 1 while an id
\* selected before it in the list is still not loaded.
C15_Witness ==
  /\ lastOp = "load"
  /\ selection.type = "ONLY_IN"
  /\ Len(selection.selections) = 2
  /\ selection.selections[1] \notin ToSet(records)
  /\ records[2] = selection.selections[2]
  /\ 1 \in dataGridSelection(selection, records, total)

\* The loaded records the state selects, in window order.
selectedInWindowOrder(sel, recs) ==
  SelectSeq(recs, LAMBDA id : id # NotLoaded /\ selects(sel, id))

\* C16: at both call sites the loaded selected records are the loaded
\* records the state selects, in window order.
C16_LoadedSelectedRecords ==
  /\ loadedSelectedRecords(selection, records) = selectedInWindowOrder(selection, records)
  /\ loadedSelectedRuns(selection, records) = selectedInWindowOrder(selection, records)

\* C17: an 'add' or 'remove' changes the membership only of ids loaded in
\* its range when it is called.
C17_RangeFrame ==
  [][(lastOp' \in {"add", "remove"} /\ updated') =>
       \A x \in Ids \ idsInRange(records, lastRange') :
         x \in idsOf(selection') <=> x \in idsOf(selection)]_vars

\* An 'add' over a range with a loaded and a pending position: the id the
\* pending one may resolve to later is not in the state.
C17_Witness ==
  /\ lastOp = "add" /\ updated
  /\ selection.type = "ONLY_IN"
  /\ idsInRange(records, lastRange) # {}
  /\ \E p \in lastRange[1]..(lastRange[2] - 1) :
       p < Len(records) /\ records[p + 1] = NotLoaded
  /\ \E x \in Ids : x \notin idsOf(selection)

\* C18 as stated: with no loaded slot in the range, 'add', 'remove' and
\* 'set' leave the selection as it was.
C18_EmptyRangeNoOp ==
  [][(/\ lastOp' \in {"add", "remove", "set"}
      /\ updated'
      /\ idsInRange(records, lastRange') = {}) =>
       selection' = selection]_vars

\* C18 amended: with no loaded slot in the range, 'add' and 'remove' leave
\* the selection as it was and 'set' writes the default empty state.
C18_EmptyRangeEffect ==
  [][(updated' /\ lastRange' # NoRange /\ idsInRange(records, lastRange') = {}) =>
       /\ lastOp' \in {"add", "remove"} => selection' = selection
       /\ lastOp' = "set" =>
            selection' = [type |-> "ONLY_IN", selections |-> <<>>]]_vars

\* An 'add' over pending positions of the window met a non-empty state.
C18_Witness ==
  /\ lastOp = "add" /\ updated
  /\ lastRange = <<0, WindowLen>>
  /\ \A p \in Positions : records[p + 1] = NotLoaded
  /\ idsOf(selection) # {}

\* Integer range bounds below 0, inverted, and past the window.
IntBounds == (0 - WindowLen - 1)..(WindowLen + 1)

\* C19: for any integers lo, hi rowRangeToIds is the loaded ids at the
\* positions max(0, lo) <= p < min(hi, L), in window order.
C19_RangeClamped ==
  \A lo \in IntBounds, hi \in IntBounds :
    rowRangeToIds(records, <<lo, hi>>) =
      SelectSeq(SubSeq(records, Max(0, lo) + 1, Min(hi, Len(records))),
                LAMBDA id : id # NotLoaded)

\* C20: a step of the data loader leaves the selection's variant and id
\* list as they were.
C20_LoaderKeepsSelection ==
  [][lastOp' = "load" => selection' = selection]_vars

\* After a loader step the state still excludes an id the window no longer
\* holds, and the total is known.
C20_Witness ==
  /\ lastOp = "load"
  /\ total # NotLoaded
  /\ selection.type = "ALL_EXCEPT"
  /\ \E id \in ToSet(selection.exclusions) : id \notin ToSet(records)


\* ------------------------------------------------------------------ C21
\* The state is one variant: ONLY_IN has the fields type and selections,
\* ALL_EXCEPT has the fields type and exclusions.
WellFormed(sel) ==
  \/ sel.type = "ONLY_IN" /\ DOMAIN sel = {"type", "selections"}
  \/ sel.type = "ALL_EXCEPT" /\ DOMAIN sel = {"type", "exclusions"}

\* C21: every state is exactly one variant (ONLY_IN with selections and no
\* exclusions, ALL_EXCEPT with exclusions and no selections), and a step
\* that changes the variant replaces the whole state: after 'add-all' and
\* 'remove-all' the id list is empty, after 'set' it holds the range's
\* loaded ids and nothing of the list it replaced.
C21_OneVariant ==
  [][/\ WellFormed(selection)
     /\ WellFormed(selection')
     /\ selection'.type # selection.type =>
          \/ lastOp' = "add-all" /\ selection' = [type |-> "ALL_EXCEPT", exclusions |-> <<>>]
          \/ lastOp' = "remove-all" /\ selection' = [type |-> "ONLY_IN", selections |-> <<>>]
          \/ /\ lastOp' = "set"
             /\ selection'.type = "ONLY_IN"
             /\ ToSet(selection'.selections) = idsInRange(records, lastRange')]_vars

C21_Witness ==
  /\ lastOp = "set"
  /\ updated
  /\ DOMAIN selection = {"type", "selections"}
  /\ Len(selection.selections) = 1
  /\ total # NotLoaded
  /\ \A p \in Positions : isLoaded(records[p + 1])

\* ------------------------------------------------------------------ C22
\* C22: in every ONLY_IN state selectionSize is the number of distinct ids
\* in selections: the list never holds the same id twice.
C22_NoDuplicates ==
  selection.type = "ONLY_IN" =>
    selectionSize(selection, total) = Cardinality(ToSet(selection.selections))

C22_Witness ==
  /\ selection.type = "ONLY_IN"
  /\ lastOp = "add"
  /\ updated
  /\ Cardinality(idsInRange(records, lastRange)) = 1
  /\ selectionSize(selection, total) = 2

\* ------------------------------------------------------------------ C23
\* C23: an id enters the stored list only as the id of a loaded slot inside
\* the range of the 'add', 'remove' or 'set' that is being applied, and the
\* list holds no id twice; so the stored ids are bounded by the loaded rows
\* the calls touched, whatever the total is.
C23_StoredIdsTouched ==
  [][LET touched == IF lastOp' \in {"add", "remove", "set"} /\ lastRange' # NoRange
                      THEN idsInRange(records, lastRange') ELSE {}
     IN  /\ idsOf(selection') \ idsOf(selection) \subseteq touched
         /\ selection'.type # selection.type => idsOf(selection') \subseteq touched
         /\ Cardinality(idsOf(selection')) =
              Len(IF selection'.type = "ONLY_IN" THEN selection'.selections
                                                 ELSE selection'.exclusions)]_vars

C23_Witness ==
  /\ lastOp = "remove"
  /\ updated
  /\ selection.type = "ALL_EXCEPT"
  /\ Len(selection.exclusions) = WindowLen
  /\ total = MaxTotal
  /\ Cardinality(idsInRange(records, lastRange)) = 1

\* ------------------------------------------------------------------ C24
\* C24: a persisted selection with an unknown type or without its id array
\* is taken as the default empty ONLY_IN state: size 0, empty projection,
\* no loaded selected records; the range query and the mutator answer as
\* they do for an empty ONLY_IN state.
C24_FailClosed ==
  \A raw \in MalformedSelections :
    LET sel == decodeSelection(raw)
    IN  /\ WellFormed(sel)
        /\ selectionSize(sel, total) = 0
        /\ dataGridSelection(sel, records, total) = {}
        /\ loadedSelectedRecords(sel, records) = <<>>
        /\ isRangeSelected(sel, records, <<0, WindowLen>>)
             = (idsInRange(records, <<0, WindowLen>>) = {})
        /\ handleSelectionChange(sel, records, "add", <<0, WindowLen>>).selection
             = [type |-> "ONLY_IN", selections |-> filterNotLoaded(records)]
        /\ handleSelectionChange(sel, records, "remove", <<0, WindowLen>>).selection
             = [type |-> "ONLY_IN", selections |-> <<>>]

C24_Witness ==
  /\ total = MaxTotal
  /\ \A p \in Positions : isLoaded(records[p + 1])
  /\ \E raw \in MalformedSelections :
       /\ raw.type = "ALL_EXCEPT"
       /\ selectionSize(decodeSelection(raw), total) = 0

C26_SameMutator ==
  \A selectionType \in {"add", "add-all", "remove", "remove-all", "set"},
     range \in Ranges \cup {NoRange} :
    flatRunsHandleSelectionChange(selection, records, selectionType, range)
      = handleSelectionChange(selection, records, selectionType, range)

C26_Witness ==
  /\ selection.type = "ALL_EXCEPT"
  /\ selection.exclusions # <<>>
  /\ \A p \in Positions : isLoaded(records[p + 1])
  /\ flatRunsHandleSelectionChange(selection, records, "add", <<0, WindowLen>>).selection
       # selection
  /\ ~flatRunsHandleSelectionChange(selection, records, "set", NoRange).called

\* ------------------------------------------------------------------ C27
\* C27: the state an event persists is computed from the snapshot the
\* handler captured, the window, the event type and the range only. With
\* no event since the last render the snapshot is the stored state, so
\* events that each see the previous one's write compose sequentially; an
\* event dispatched against the snapshot of an earlier, not yet rendered
\* event persists its own result over that snapshot and replaces the
\* earlier write.
C27_SnapshotOnly ==
  [][/\ ~pending => snapshot = selection
     /\ pending' =>
          LET r == handleSelectionChange(snapshot, records, lastOp', lastRange')
          IN  /\ updated' = r.called
              /\ r.called => selection' = r.selection
              /\ ~r.called => selection' = selection]_vars

C27_Witness ==
  /\ pending
  /\ overwrote
  /\ lastOp = "remove"
  /\ snapshot.type = "ALL_EXCEPT"
  /\ selection.type = "ALL_EXCEPT"
  /\ Len(selection.exclusions) = 1

C28_FilterResets ==
  [][/\ filterset' # filterset =>
          /\ ~isLoadingSettings
          /\ selection' = DEFAULT_SELECTION
          /\ updated'
          /\ page' = 0
          /\ \A p \in Positions : records'[p + 1] = NotLoaded
     /\ (isLoadingSettings /\ ~isLoadingSettings') =>
          /\ selection' = selection
          /\ filterset' = filterset]_vars

C28_Witness ==
  /\ lastOp = "filter"
  /\ updated
  /\ ~isLoadingSettings
  /\ filterset = "filterB"
  /\ selection = DEFAULT_SELECTION
  /\ page = 0

\* ------------------------------------------------------------------ C29
\* C29: a sort change and a page change leave the persisted selection as it
\* is; a new sort string empties the window and sets the page to 0, a page
\* change empties the window exactly when the page number changes; over the
\* emptied window the page shows no selected row.
C29_SortPageFrame ==
  [][lastOp' \in {"sort", "page"} =>
       /\ selection' = selection
       /\ ~updated'
       /\ (lastOp' = "sort" /\ sortString' # sortString) =>
            /\ page' = 0
            /\ \A p \in Positions : records'[p + 1] = NotLoaded
       /\ lastOp' = "page" =>
            IF page' # page
              THEN \A p \in Positions : records'[p + 1] = NotLoaded
              ELSE records' = records
       /\ (\A p \in Positions : records'[p + 1] = NotLoaded) =>
            /\ flatRunsSelection(selection', records') = {}
            /\ loadedSelectedRuns(selection', records') = <<>>]_vars

C29_Witness ==
  /\ lastOp = "page"
  /\ page = MaxPage
  /\ selection.type = "ONLY_IN"
  /\ selection.selections # <<>>
  /\ \A p \in Positions : records[p + 1] = NotLoaded
  /\ ~isLoadingSettings
====
